---- MODULE Spec2Model ----
(***************************************************************************)
(* Model of the identity / session-issuance core of my-school:             *)
(*   backend/app/models/user.py      (User, OTP lifecycle)                 *)
(*   backend/app/utils/validators.py (credential validation)               *)
(*   backend/app/views/auth.py       (register, verify-otp, resend-otp,    *)
(*                                    login, google, refresh)              *)
(*                                                                         *)
(* Strings are sequences of tokens.  A token stands for a fixed substring  *)
(* ("a", "A", "@", "students.", "kcau.ac.ke", ...), so str.lower(),        *)
(* str.strip(), str.endswith() and str.split('@') are computed on the      *)
(* sequence the way Python computes them on the characters.  Passwords are *)
(* sequences of single characters.  Time is counted in minutes.            *)
(***************************************************************************)
EXTENDS Integers, Sequences, FiniteSets, TLC

VARIABLES users, now, resp, issued, sess, wrongEvaluated

vars == <<users, now, resp, issued, sess, wrongEvaluated>>

(***************************************************************************)
(* Bounds of the model                                                     *)
(***************************************************************************)
MaxUsers == 3
MaxTime == 11
TickMinutes == 11

(***************************************************************************)
(* Program constants                                                       *)
(***************************************************************************)
OTP_MINUTES == 10
MAX_ATTEMPTS == 5
MIN_PASSWORD_LEN == 8
OTP_LOW == 100000
OTP_HIGH == 999999

\* Python None for string-valued and for number-valued columns.
NoneStr == <<"None">>
NoneInt == -1

(***************************************************************************)
(* Strings                                                                 *)
(***************************************************************************)
\* str.lower() on one token.
LowerTok(t) ==
    CASE t = "A" -> "a"
      [] t = "B" -> "b"
      [] t = "P" -> "p"
      [] t = "STUDENTS." -> "students."
      [] t = "KCAU.AC.KE" -> "kcau.ac.ke"
      [] OTHER -> t

\* str.lower()
Lower(s) == [i \in 1..Len(s) |-> LowerTok(s[i])]

\* str.strip(): drop leading and trailing whitespace.
RECURSIVE LStrip(_)
LStrip(s) == IF s # <<>> /\ Head(s) = " " THEN LStrip(Tail(s)) ELSE s

RECURSIVE RStrip(_)
RStrip(s) == IF s # <<>> /\ s[Len(s)] = " " THEN RStrip(SubSeq(s, 1, Len(s) - 1)) ELSE s

Strip(s) == RStrip(LStrip(s))

\* str.endswith(suffix)
EndsWith(s, suffix) ==
    /\ Len(suffix) <= Len(s)
    /\ SubSeq(s, Len(s) - Len(suffix) + 1, Len(s)) = suffix

\* Position of the first '@' of s, 0 when there is none.
AtPos(s) ==
    IF \E i \in 1..Len(s) : s[i] = "@"
    THEN CHOOSE i \in 1..Len(s) : s[i] = "@" /\ \A j \in 1..(i - 1) : s[j] # "@"
    ELSE 0

\* email.split('@')[0]
LocalPart(s) == IF AtPos(s) = 0 THEN s ELSE SubSeq(s, 1, AtPos(s) - 1)

\* str(counter) for the counters the username loop can reach.
IntToStr(k) ==
    CASE k = 1 -> <<"1">>
      [] k = 2 -> <<"2">>
      [] k = 3 -> <<"3">>
      [] OTHER -> <<"4">>

(***************************************************************************)
(* validators.py                                                           *)
(***************************************************************************)
\* Tokens of the class [a-zA-Z0-9._%+-]
LocalClass == {"a", "A", "b", "B", "1", "2", "3", "4"}
\* Tokens made of characters of the class [a-zA-Z0-9.-]
DomainClass == {"students.", "STUDENTS.", "staff.", "faculty.", "student.",
                "kcau.ac.ke", "KCAU.AC.KE", "gmail.com", "localhost"}
\* Domain tokens that end in \.[a-zA-Z]{2,}
TldTokens == {"kcau.ac.ke", "KCAU.AC.KE", "gmail.com"}

\* ^[a-zA-Z0-9._%+-]+@[a-zA-Z0-9.-]+\.[a-zA-Z]{2,}$
validate_email(email) ==
    LET p == AtPos(email) IN
    /\ p > 1
    /\ p < Len(email)
    /\ \A i \in 1..(p - 1) : email[i] \in LocalClass
    /\ \A i \in (p + 1)..Len(email) : email[i] \in DomainClass
    /\ email[Len(email)] \in TldTokens

validate_password(password) == ~(Len(password) < MIN_PASSWORD_LEN)

allowed_student_domains ==
    { <<"@", "students.", "kcau.ac.ke">>, <<"@", "student.", "kcau.ac.ke">> }

allowed_lecturer_domains ==
    { <<"@", "kcau.ac.ke">>, <<"@", "staff.", "kcau.ac.ke">>,
      <<"@", "faculty.", "kcau.ac.ke">> }

\* A student check that accepts every well-formed address.
validate_student_email_any_domain(email) == validate_email(email)

validate_student_email(email) ==
    /\ validate_email(email)
    /\ \E domain \in allowed_student_domains : EndsWith(Lower(email), Lower(domain))

validate_lecturer_email(email) ==
    /\ validate_email(email)
    /\ \E domain \in allowed_lecturer_domains : EndsWith(Lower(email), Lower(domain))

validate_institutional_email(email, user_role) ==
    IF Lower(user_role) = <<"student">> THEN validate_student_email(email)
    ELSE IF Lower(user_role) = <<"lecturer">> THEN validate_lecturer_email(email)
    ELSE FALSE

(***************************************************************************)
(* models/user.py                                                          *)
(***************************************************************************)
detect_role_from_email(email) ==
    IF \/ EndsWith(email, <<"@", "students.", "kcau.ac.ke">>)
       \/ EndsWith(email, <<"@", "student.", "kcau.ac.ke">>)
    THEN <<"student">>
    ELSE IF \/ EndsWith(email, <<"@", "kcau.ac.ke">>)
            \/ EndsWith(email, <<"@", "staff.", "kcau.ac.ke">>)
    THEN <<"lecturer">>
    ELSE <<"student">>

\* generate_password_hash / check_password_hash: a hash matches exactly the
\* password it was made from.
generate_password_hash(password) == <<"hash">> \o password

\* check_password_hash(None, p) raises; callers test for NoneStr first.
check_password(u, password) == u.password_hash = generate_password_hash(password)

\* User(...) with the column defaults of the table.
NewUser(email, username, password_hash, role, is_verified, google_id, picture) ==
    [ email |-> email, username |-> username, password_hash |-> password_hash,
      profile_picture |-> picture, role |-> role, is_active |-> TRUE,
      is_verified |-> is_verified,
      otp_code |-> NoneInt, otp_expires_at |-> NoneInt, otp_attempts |-> 0,
      google_id |-> google_id, last_login |-> NoneInt ]

\* generate_otp that leaves the attempt counter as it was.
generate_otp_keeps_attempts(u, code, t) ==
    [u EXCEPT !.otp_code = code,
              !.otp_expires_at = t + OTP_MINUTES]

\* generate_otp that leaves a pending code in place.
generate_otp_keeps_pending(u, code, t) ==
    [u EXCEPT !.otp_code = IF @ = NoneInt THEN code ELSE @,
              !.otp_expires_at = t + OTP_MINUTES,
              !.otp_attempts = 0]

\* generate_otp: code is the value random.randint(100000, 999999) returned.
generate_otp(u, code, t) ==
    [u EXCEPT !.otp_code = code,
              !.otp_expires_at = t + OTP_MINUTES,
              !.otp_attempts = 0]

MsgNoOtp == "No OTP found. Please request a new one."
MsgExpired == "OTP has expired. Please request a new one."
MsgTooMany == "Too many failed attempts. Please request a new OTP."
MsgVerified == "Email verified successfully!"
MsgInvalid == "Invalid OTP. N attempts remaining."

\* verify_otp that compares the code before it looks at the attempt limit.
verify_otp_match_before_lock(u, provided_otp, t) ==
    IF u.otp_code = NoneInt \/ u.otp_expires_at = NoneInt
    THEN [user |-> u, ok |-> FALSE, msg |-> MsgNoOtp, remaining |-> NoneInt]
    ELSE IF t > u.otp_expires_at
    THEN [user |-> u, ok |-> FALSE, msg |-> MsgExpired, remaining |-> NoneInt]
    ELSE IF u.otp_code = provided_otp
    THEN [user |-> [u EXCEPT !.is_verified = TRUE,
                             !.otp_code = NoneInt,
                             !.otp_expires_at = NoneInt,
                             !.otp_attempts = 0],
          ok |-> TRUE, msg |-> MsgVerified, remaining |-> NoneInt]
    ELSE IF u.otp_attempts >= MAX_ATTEMPTS
    THEN [user |-> u, ok |-> FALSE, msg |-> MsgTooMany, remaining |-> NoneInt]
    ELSE [user |-> [u EXCEPT !.otp_attempts = u.otp_attempts + 1],
          ok |-> FALSE, msg |-> MsgInvalid,
          remaining |-> MAX_ATTEMPTS - (u.otp_attempts + 1)]

\* verify_otp that compares the code before it looks at the expiry.
verify_otp_match_before_expiry(u, provided_otp, t) ==
    IF u.otp_code = NoneInt \/ u.otp_expires_at = NoneInt
    THEN [user |-> u, ok |-> FALSE, msg |-> MsgNoOtp, remaining |-> NoneInt]
    ELSE IF u.otp_attempts >= MAX_ATTEMPTS /\ t <= u.otp_expires_at
    THEN [user |-> u, ok |-> FALSE, msg |-> MsgTooMany, remaining |-> NoneInt]
    ELSE IF u.otp_code = provided_otp /\ u.otp_attempts < MAX_ATTEMPTS
    THEN [user |-> [u EXCEPT !.is_verified = TRUE,
                             !.otp_code = NoneInt,
                             !.otp_expires_at = NoneInt,
                             !.otp_attempts = 0],
          ok |-> TRUE, msg |-> MsgVerified, remaining |-> NoneInt]
    ELSE IF t > u.otp_expires_at
    THEN [user |-> u, ok |-> FALSE, msg |-> MsgExpired, remaining |-> NoneInt]
    ELSE [user |-> [u EXCEPT !.otp_attempts = u.otp_attempts + 1],
          ok |-> FALSE, msg |-> MsgInvalid,
          remaining |-> MAX_ATTEMPTS - (u.otp_attempts + 1)]

\* verify_otp whose success branch clears the code and the expiry but not
\* the attempt counter.
verify_otp_keeps_attempts(u, provided_otp, t) ==
    IF u.otp_code = NoneInt \/ u.otp_expires_at = NoneInt
    THEN [user |-> u, ok |-> FALSE, msg |-> MsgNoOtp, remaining |-> NoneInt]
    ELSE IF t > u.otp_expires_at
    THEN [user |-> u, ok |-> FALSE, msg |-> MsgExpired, remaining |-> NoneInt]
    ELSE IF u.otp_attempts >= MAX_ATTEMPTS
    THEN [user |-> u, ok |-> FALSE, msg |-> MsgTooMany, remaining |-> NoneInt]
    ELSE IF u.otp_code = provided_otp
    THEN [user |-> [u EXCEPT !.is_verified = TRUE,
                             !.otp_code = NoneInt,
                             !.otp_expires_at = NoneInt],
          ok |-> TRUE, msg |-> MsgVerified, remaining |-> NoneInt]
    ELSE [user |-> [u EXCEPT !.otp_attempts = u.otp_attempts + 1],
          ok |-> FALSE, msg |-> MsgInvalid,
          remaining |-> MAX_ATTEMPTS - (u.otp_attempts + 1)]

\* verify_otp whose success branch clears the code but does not mark the
\* user verified.
verify_otp_clears_only(u, provided_otp, t) ==
    IF u.otp_code = NoneInt \/ u.otp_expires_at = NoneInt
    THEN [user |-> u, ok |-> FALSE, msg |-> MsgNoOtp, remaining |-> NoneInt]
    ELSE IF t > u.otp_expires_at
    THEN [user |-> u, ok |-> FALSE, msg |-> MsgExpired, remaining |-> NoneInt]
    ELSE IF u.otp_attempts >= MAX_ATTEMPTS
    THEN [user |-> u, ok |-> FALSE, msg |-> MsgTooMany, remaining |-> NoneInt]
    ELSE IF u.otp_code = provided_otp
    THEN [user |-> [u EXCEPT !.otp_code = NoneInt,
                             !.otp_expires_at = NoneInt,
                             !.otp_attempts = 0],
          ok |-> TRUE, msg |-> MsgVerified, remaining |-> NoneInt]
    ELSE [user |-> [u EXCEPT !.otp_attempts = u.otp_attempts + 1],
          ok |-> FALSE, msg |-> MsgInvalid,
          remaining |-> MAX_ATTEMPTS - (u.otp_attempts + 1)]

\* verify_otp that looks at the attempt limit before the expiry.
verify_otp_lock_before_expiry(u, provided_otp, t) ==
    IF u.otp_code = NoneInt \/ u.otp_expires_at = NoneInt
    THEN [user |-> u, ok |-> FALSE, msg |-> MsgNoOtp, remaining |-> NoneInt]
    ELSE IF u.otp_attempts >= MAX_ATTEMPTS
    THEN [user |-> u, ok |-> FALSE, msg |-> MsgTooMany, remaining |-> NoneInt]
    ELSE IF t > u.otp_expires_at
    THEN [user |-> u, ok |-> FALSE, msg |-> MsgExpired, remaining |-> NoneInt]
    ELSE IF u.otp_code = provided_otp
    THEN [user |-> [u EXCEPT !.is_verified = TRUE,
                             !.otp_code = NoneInt,
                             !.otp_expires_at = NoneInt,
                             !.otp_attempts = 0],
          ok |-> TRUE, msg |-> MsgVerified, remaining |-> NoneInt]
    ELSE [user |-> [u EXCEPT !.otp_attempts = u.otp_attempts + 1],
          ok |-> FALSE, msg |-> MsgInvalid,
          remaining |-> MAX_ATTEMPTS - (u.otp_attempts + 1)]

\* verify_otp: the user after the call, the returned pair, and the N of the
\* mismatch message (NoneInt when the message carries no number).
verify_otp(u, provided_otp, t) ==
    IF u.otp_code = NoneInt \/ u.otp_expires_at = NoneInt
    THEN [user |-> u, ok |-> FALSE, msg |-> MsgNoOtp, remaining |-> NoneInt]
    ELSE IF t > u.otp_expires_at
    THEN [user |-> u, ok |-> FALSE, msg |-> MsgExpired, remaining |-> NoneInt]
    ELSE IF u.otp_attempts >= MAX_ATTEMPTS
    THEN [user |-> u, ok |-> FALSE, msg |-> MsgTooMany, remaining |-> NoneInt]
    ELSE IF u.otp_code = provided_otp
    THEN [user |-> [u EXCEPT !.is_verified = TRUE,
                             !.otp_code = NoneInt,
                             !.otp_expires_at = NoneInt,
                             !.otp_attempts = 0],
          ok |-> TRUE, msg |-> MsgVerified, remaining |-> NoneInt]
    ELSE [user |-> [u EXCEPT !.otp_attempts = u.otp_attempts + 1],
          ok |-> FALSE, msg |-> MsgInvalid,
          remaining |-> MAX_ATTEMPTS - (u.otp_attempts + 1)]

clear_otp(u) ==
    [u EXCEPT !.otp_code = NoneInt, !.otp_expires_at = NoneInt, !.otp_attempts = 0]

\* A to_dict that also copies the pending code.
to_dict_columns_with_code ==
    { "id", "email", "username", "first_name", "last_name", "profile_picture",
      "phone_number", "role", "is_active", "is_verified", "created_at",
      "last_login", "otp_code" }

\* to_dict: the keys of the dictionary; each key holds the column of the
\* same name.
to_dict_columns ==
    { "id", "email", "username", "first_name", "last_name", "profile_picture",
      "phone_number", "role", "is_active", "is_verified", "created_at",
      "last_login" }

\* to_dict of the row u with primary key id.  Columns the user records here
\* do not carry (names, phone number, created_at) are serialized as None.
to_dict(u, id) ==
    [k \in to_dict_columns |->
        IF k = "id" THEN <<"id", id>>
        ELSE IF k \in DOMAIN u THEN <<k, u[k]>>
        ELSE <<k, NoneStr>>]

\* User.query.filter_by(col=value).first(): the id of the matching row, 0
\* when there is none.  Columns are compared as the strings they are.
FindBy(table, col, value) ==
    IF \E i \in DOMAIN table : table[i][col] = value
    THEN CHOOSE i \in DOMAIN table : table[i][col] = value
    ELSE 0

find_by_email(table, email) == FindBy(table, "email", email)
find_by_username(table, username) == FindBy(table, "username", username)
find_by_google_id(table, google_id) == FindBy(table, "google_id", google_id)

(***************************************************************************)
(* Inputs the requests are drawn from                                      *)
(***************************************************************************)
StudentA == <<"a", "@", "students.", "kcau.ac.ke">>
StudentAUpper == <<"A", "@", "students.", "kcau.ac.ke">>
LecturerB == <<"b", "@", "kcau.ac.ke">>
OutsiderA == <<"a", "@", "gmail.com">>

GoodPassword == <<"p", "a", "s", "s", "w", "o", "r", "d">>
\* GoodPassword with one letter in the other case.
UpperPassword == <<"P", "a", "s", "s", "w", "o", "r", "d">>
PasswordInputs == {GoodPassword, UpperPassword, <<"p", "w">>, <<>>}
GoogleIds == { <<"g1">>, <<"g2">> }
Pictures == { <<>>, <<"pic">> }
\* Values random.randint(OTP_LOW, OTP_HIGH) can return, and codes a client submits.
Codes == {OTP_LOW, OTP_HIGH}

\* A complete, valid registration body.
ValidBody(email, username) ==
    [email |-> email, username |-> username, password |-> GoodPassword,
     first_name |-> <<"Jane">>, last_name |-> <<"Doe">>]

\* Registration bodies that break one rule each.
InvalidBodies ==
    { ValidBody(OutsiderA, <<"a">>),
      [ValidBody(StudentA, <<"a">>) EXCEPT !.email = <<>>],
      [ValidBody(StudentA, <<"a">>) EXCEPT !.last_name = <<>>],
      [ValidBody(StudentA, <<"a">>) EXCEPT !.password = <<"p", "w">>] }

\* Requests about one address (in two spellings): the life of one account.
LifecycleBodies ==
    { ValidBody(StudentA, <<"a">>), ValidBody(StudentAUpper, <<"b">>),
      ValidBody(StudentA, <<"a", " ">>) } \cup InvalidBodies
LifecycleIdentities == [sub : GoogleIds, email : {StudentA}, picture : Pictures]
LifecycleEmails == {StudentA, StudentAUpper, LecturerB, <<>>}

\* Requests about several addresses: accounts side by side.
\* Addresses on the allow-lists of the validators in other spellings.
StudentAUpperDomain == <<"a", "@", "STUDENTS.", "KCAU.AC.KE">>
LecturerBUpperDomain == <<"b", "@", "KCAU.AC.KE">>
FacultyB == <<"b", "@", "faculty.", "kcau.ac.ke">>
AllowListBodies ==
    { ValidBody(e, <<"b">>) : e \in {StudentAUpperDomain, LecturerBUpperDomain, FacultyB} }
AccountBodies ==
    { ValidBody(e, u) : e \in {StudentA, StudentAUpper, LecturerB},
                        u \in { <<"a">>, <<"b">> } }
        \cup InvalidBodies \cup AllowListBodies
AccountIdentities ==
    [sub : GoogleIds, email : {StudentA, StudentAUpper, LecturerB, OutsiderA},
     picture : { <<"pic">> }]
AccountEmails == {StudentA, StudentAUpper, LecturerB, OutsiderA}

(***************************************************************************)
(* Responses                                                               *)
(***************************************************************************)
\* kind names the branch of the handler that produced the response:
\*   FieldMissing        '<field> is required' / 'User ID ... required'    400
\*   InvalidEmailDomain  message of validate_institutional_email           400
\*   WeakPassword        'Password must be at least 8 characters long'     400
\*   EmailTaken          'Email already registered'                        409
\*   UsernameTaken       'Username already taken'                          409
\*   Failed              the generic except branch of the handler          500
\*   UserNotFound 404, AlreadyVerified 400, OtpError 400 (msg holds the text),
\*   InvalidEmailFormat 400, InvalidCredentials 401, AccountDeactivated 401,
\*   VerificationRequired 401, InvalidAssertion 401, NotifyFailed 500,
\*   InvalidToken (rejected by jwt_required), Ok 200/201
NoResp ==
    [op |-> "none", status |-> 0, kind |-> "none", msg |-> "", uid |-> 0,
     access |-> 0, refresh |-> 0, remaining |-> NoneInt,
     email_sent |-> FALSE, otp_mail |-> NoneInt, welcome_mail |-> FALSE]

Response(op, status, kind) ==
    [NoResp EXCEPT !.op = op, !.status = status, !.kind = kind]

AccessToken(uid) == [sub |-> uid, type |-> "access"]
RefreshTokenOf(uid) == [sub |-> uid, type |-> "refresh"]

(***************************************************************************)
(* views/auth.py: register                                                 *)
(***************************************************************************)
\* The storage-level unique constraints of users.email, users.username and
\* users.google_id: TRUE when inserting row u into table violates one.
UniqueViolation(table, u) ==
    \E i \in DOMAIN table :
        \/ table[i].email = u.email
        \/ table[i].username = u.username
        \/ (u.google_id # NoneStr /\ table[i].google_id = u.google_id)

\* register, lines 24-54: validation and the advisory existence checks.
\* The response that ends the request early, or NoResp to go on.
RegisterCheck(table, data) ==
    IF \/ data.email = <<>> \/ data.username = <<>> \/ data.password = <<>>
       \/ data.first_name = <<>> \/ data.last_name = <<>>
    THEN Response("register", 400, "FieldMissing")
    ELSE IF ~validate_institutional_email(data.email, detect_role_from_email(data.email))
    THEN Response("register", 400, "InvalidEmailDomain")
    ELSE IF ~validate_password(data.password)
    THEN Response("register", 400, "WeakPassword")
    ELSE IF find_by_email(table, data.email) # 0
    THEN Response("register", 409, "EmailTaken")
    ELSE IF find_by_username(table, data.username) # 0
    THEN Response("register", 409, "UsernameTaken")
    ELSE NoResp

\* register, lines 57-69: the User object that is added to the session.
RegisterUser(data, code, t) ==
    generate_otp(
        NewUser(Strip(Lower(data.email)), Strip(data.username),
                generate_password_hash(data.password),
                detect_role_from_email(data.email), FALSE, NoneStr, NoneStr),
        code, t)

\* register, lines 71-100: the commit, the notification and the response.
\* An IntegrityError of the commit reaches the generic except branch.
RegisterInsert(table, data, code, sent, t) ==
    LET u == RegisterUser(data, code, t) IN
    IF UniqueViolation(table, u)
    THEN [table |-> table, resp |-> Response("register", 500, "Failed")]
    ELSE [table |-> Append(table, u),
          resp |-> IF sent
                   THEN [Response("register", 201, "Ok") EXCEPT
                            !.uid = Len(table) + 1, !.email_sent = TRUE,
                            !.otp_mail = code]
                   ELSE Response("register", 201, "Ok")]

(***************************************************************************)
(* views/auth.py: verify-otp, resend-otp                                   *)
(***************************************************************************)
\* db.session.commit() of a loaded object: the UPDATE carries the columns
\* whose value differs from the loaded one; the other columns keep what the
\* table holds.
Flush(row, loaded, changed) ==
    [c \in DOMAIN row |-> IF changed[c] # loaded[c] THEN changed[c] ELSE row[c]]

\* A handler that does not look at is_verified before the code.
VerifyPrecheck_no_verified_check(table, user_id, otp_code) ==
    IF user_id = 0 \/ otp_code = NoneInt
    THEN Response("verify_otp", 400, "FieldMissing")
    ELSE IF user_id \notin DOMAIN table
    THEN Response("verify_otp", 404, "UserNotFound")
    ELSE NoResp

\* verify_otp, lines 106-119: the response that ends the request before the
\* code is looked at, or NoResp.  user_id 0 and code NoneInt stand for a
\* missing field.
VerifyPrecheck(table, user_id, otp_code) ==
    IF user_id = 0 \/ otp_code = NoneInt
    THEN Response("verify_otp", 400, "FieldMissing")
    ELSE IF user_id \notin DOMAIN table
    THEN Response("verify_otp", 404, "UserNotFound")
    ELSE IF table[user_id].is_verified
    THEN Response("verify_otp", 400, "AlreadyVerified")
    ELSE NoResp

\* What follows the commit of a successful verification (lines 133-146):
\* the welcome mail is sent, or EmailService.send_welcome_email returns
\* False (email.py:166-168, the result is not looked at), or a later
\* statement (token creation, the second commit) raises and the generic
\* handler rolls back and answers 500 (lines 153-155).
AfterCommit == {"sent", "mail_failed", "raised"}

\* A handler that commits once, at its end.
VerifyFinish_single_commit(table, user_id, loaded, otp_code, after, t) ==
    LET r == verify_otp(loaded, otp_code, t) IN
    IF ~r.ok
    THEN [table |-> [table EXCEPT ![user_id] = Flush(@, loaded, r.user)],
          resp |-> [Response("verify_otp", 400, "OtpError") EXCEPT
                        !.msg = r.msg, !.remaining = r.remaining],
          tokens |-> {}]
    ELSE IF after = "raised"
    THEN [table |-> table,
          resp |-> Response("verify_otp", 500, "Failed"),
          tokens |-> {}]
    ELSE [table |-> [table EXCEPT ![user_id] =
                        [Flush(@, loaded, r.user) EXCEPT !.last_login = t]],
          resp |-> [Response("verify_otp", 200, "Ok") EXCEPT
                        !.msg = r.msg, !.uid = user_id,
                        !.welcome_mail = (after = "sent"),
                        !.access = user_id, !.refresh = user_id],
          tokens |-> {AccessToken(user_id), RefreshTokenOf(user_id)}]

\* verify_otp, lines 121-155, for the user object loaded as 'loaded':
\* User.verify_otp, the commit(s), the welcome mail and the tokens.
VerifyFinish(table, user_id, loaded, otp_code, after, t) ==
    LET r == verify_otp(loaded, otp_code, t) IN
    IF ~r.ok
    THEN [table |-> [table EXCEPT ![user_id] = Flush(@, loaded, r.user)],
          resp |-> [Response("verify_otp", 400, "OtpError") EXCEPT
                        !.msg = r.msg, !.remaining = r.remaining],
          tokens |-> {}]
    ELSE IF after = "raised"
    THEN [table |-> [table EXCEPT ![user_id] = Flush(@, loaded, r.user)],
          resp |-> Response("verify_otp", 500, "Failed"),
          tokens |-> {}]
    ELSE [table |-> [table EXCEPT ![user_id] =
                        [Flush(@, loaded, r.user) EXCEPT !.last_login = t]],
          resp |-> [Response("verify_otp", 200, "Ok") EXCEPT
                        !.msg = r.msg, !.uid = user_id,
                        !.welcome_mail = (after = "sent"),
                        !.access = user_id, !.refresh = user_id],
          tokens |-> {AccessToken(user_id), RefreshTokenOf(user_id)}]

\* A resend that mails the stored code again without a new one.
ResendView_same_code(table, user_id, code, sent, t) ==
    IF user_id = 0
    THEN [table |-> table, resp |-> Response("resend_otp", 400, "FieldMissing")]
    ELSE IF user_id \notin DOMAIN table
    THEN [table |-> table, resp |-> Response("resend_otp", 404, "UserNotFound")]
    ELSE IF table[user_id].is_verified
    THEN [table |-> table, resp |-> Response("resend_otp", 400, "AlreadyVerified")]
    ELSE [table |-> table,
          resp |-> IF sent
                   THEN [Response("resend_otp", 200, "Ok") EXCEPT
                            !.email_sent = TRUE,
                            !.otp_mail = table[user_id].otp_code]
                   ELSE Response("resend_otp", 500, "NotifyFailed")]

\* A resend that stores the new code only after the mail went out.
ResendView_commit_after_mail(table, user_id, code, sent, t) ==
    IF user_id = 0
    THEN [table |-> table, resp |-> Response("resend_otp", 400, "FieldMissing")]
    ELSE IF user_id \notin DOMAIN table
    THEN [table |-> table, resp |-> Response("resend_otp", 404, "UserNotFound")]
    ELSE IF table[user_id].is_verified
    THEN [table |-> table, resp |-> Response("resend_otp", 400, "AlreadyVerified")]
    ELSE IF sent
    THEN [table |-> [table EXCEPT ![user_id] = generate_otp(@, code, t)],
          resp |-> [Response("resend_otp", 200, "Ok") EXCEPT
                       !.email_sent = TRUE, !.otp_mail = code]]
    ELSE [table |-> table, resp |-> Response("resend_otp", 500, "NotifyFailed")]

\* resend_otp, lines 161-193.
ResendView(table, user_id, code, sent, t) ==
    IF user_id = 0
    THEN [table |-> table, resp |-> Response("resend_otp", 400, "FieldMissing")]
    ELSE IF user_id \notin DOMAIN table
    THEN [table |-> table, resp |-> Response("resend_otp", 404, "UserNotFound")]
    ELSE IF table[user_id].is_verified
    THEN [table |-> table, resp |-> Response("resend_otp", 400, "AlreadyVerified")]
    ELSE [table |-> [table EXCEPT ![user_id] = generate_otp(@, code, t)],
          resp |-> IF sent
                   THEN [Response("resend_otp", 200, "Ok") EXCEPT
                            !.email_sent = TRUE, !.otp_mail = code]
                   ELSE Response("resend_otp", 500, "NotifyFailed")]

(***************************************************************************)
(* views/auth.py: login                                                    *)
(***************************************************************************)
\* login that looks the email up as typed.
LoginView_email_as_typed(table, email_in, password, t) ==
    LET email == Strip(email_in)
        uid == find_by_email(table, email)
        NoChange(r) == [table |-> table, resp |-> r, tokens |-> {}]
    IN
    IF email_in = <<>> \/ password = <<>>
    THEN NoChange(Response("login", 400, "FieldMissing"))
    ELSE IF ~validate_email(email)
    THEN NoChange(Response("login", 400, "InvalidEmailFormat"))
    ELSE IF uid = 0
    THEN NoChange(Response("login", 401, "InvalidCredentials"))
    ELSE IF table[uid].password_hash = NoneStr
    THEN NoChange(Response("login", 500, "Failed"))
    ELSE IF ~check_password(table[uid], password)
    THEN NoChange(Response("login", 401, "InvalidCredentials"))
    ELSE IF ~table[uid].is_active
    THEN NoChange(Response("login", 401, "AccountDeactivated"))
    ELSE IF ~table[uid].is_verified
    THEN NoChange([Response("login", 401, "VerificationRequired") EXCEPT !.uid = uid])
    ELSE [table |-> [table EXCEPT ![uid].last_login = t],
          resp |-> [Response("login", 200, "Ok") EXCEPT
                        !.uid = uid, !.access = uid, !.refresh = uid],
          tokens |-> {AccessToken(uid), RefreshTokenOf(uid)}]

\* login, lines 203-247.  check_password_hash raises on a user without a
\* password hash, which the handler's except branch turns into a 500.
LoginView(table, email_in, password, t) ==
    LET email == Strip(Lower(email_in))
        uid == find_by_email(table, email)
        NoChange(r) == [table |-> table, resp |-> r, tokens |-> {}]
    IN
    IF email_in = <<>> \/ password = <<>>
    THEN NoChange(Response("login", 400, "FieldMissing"))
    ELSE IF ~validate_email(email)
    THEN NoChange(Response("login", 400, "InvalidEmailFormat"))
    ELSE IF uid = 0
    THEN NoChange(Response("login", 401, "InvalidCredentials"))
    ELSE IF table[uid].password_hash = NoneStr
    THEN NoChange(Response("login", 500, "Failed"))
    ELSE IF ~check_password(table[uid], password)
    THEN NoChange(Response("login", 401, "InvalidCredentials"))
    ELSE IF ~table[uid].is_active
    THEN NoChange(Response("login", 401, "AccountDeactivated"))
    ELSE IF ~table[uid].is_verified
    THEN NoChange([Response("login", 401, "VerificationRequired") EXCEPT !.uid = uid])
    ELSE [table |-> [table EXCEPT ![uid].last_login = t],
          resp |-> [Response("login", 200, "Ok") EXCEPT
                        !.uid = uid, !.access = uid, !.refresh = uid],
          tokens |-> {AccessToken(uid), RefreshTokenOf(uid)}]

(***************************************************************************)
(* views/auth.py: google                                                   *)
(***************************************************************************)
\* A suffix loop that appends each counter to the previous candidate.
RECURSIVE UniqueUsername_appends(_, _, _, _)
UniqueUsername_appends(table, username, original_username, counter) ==
    IF find_by_username(table, username) # 0
    THEN UniqueUsername_appends(table, username \o IntToStr(counter),
                                original_username, counter + 1)
    ELSE username

\* A handler that takes the local part as the username without looking for
\* a free one.
UniqueUsername_first_candidate(table, username, original_username, counter) ==
    username

\* google_auth, lines 320-327: the first free name among original,
\* original1, original2, ...
RECURSIVE UniqueUsername(_, _, _, _)
UniqueUsername(table, username, original_username, counter) ==
    IF find_by_username(table, username) # 0
    THEN UniqueUsername(table, original_username \o IntToStr(counter),
                        original_username, counter + 1)
    ELSE username

\* A link that rebuilds the flags of the account from the column defaults.
LinkGoogle_resets_verified(u, google_id, picture) ==
    [u EXCEPT !.google_id = google_id,
              !.is_verified = FALSE,
              !.profile_picture =
                  IF @ = NoneStr \/ @ = <<>> THEN picture ELSE @]

\* A link that always takes the picture of the identity.
LinkGoogle_overwrites_picture(u, google_id, picture) ==
    [u EXCEPT !.google_id = google_id,
              !.profile_picture = picture]

\* google_auth, lines 313-317: link the Google account to an existing user.
LinkGoogle(u, google_id, picture) ==
    [u EXCEPT !.google_id = google_id,
              !.profile_picture =
                  IF @ = NoneStr \/ @ = <<>> THEN picture ELSE @]

\* A created user that keeps the column default of is_verified.
GoogleUser_unverified(table, idinfo) ==
    NewUser(idinfo.email,
            UniqueUsername(table, LocalPart(idinfo.email), LocalPart(idinfo.email), 1),
            NoneStr, <<"student">>, FALSE, idinfo.sub, idinfo.picture)

\* google_auth, lines 329-337: the user created for an unknown identity.
GoogleUser(table, idinfo) ==
    NewUser(idinfo.email,
            UniqueUsername(table, LocalPart(idinfo.email), LocalPart(idinfo.email), 1),
            NoneStr, <<"student">>, TRUE, idinfo.sub, idinfo.picture)

\* A handler that creates an account without looking for an existing one.
GoogleView_always_creates(table, idinfo, t) ==
    LET uid == Len(table) + 1
        stamped == [GoogleUser(table, idinfo) EXCEPT !.last_login = t]
    IN
    [table |-> Append(table, stamped),
     resp |-> [Response("google", 200, "Ok") EXCEPT
                   !.uid = uid, !.access = uid, !.refresh = uid],
     tokens |-> {AccessToken(uid), RefreshTokenOf(uid)}]

\* A handler that looks for the email before the Google id.
GoogleView_email_first(table, idinfo, t) ==
    LET byId == find_by_google_id(table, idinfo.sub)
        byEmail == find_by_email(table, idinfo.email)
        uid == IF byEmail # 0 THEN byEmail
               ELSE IF byId # 0 THEN byId
               ELSE Len(table) + 1
        user == IF byEmail # 0
                THEN LinkGoogle(table[byEmail], idinfo.sub, idinfo.picture)
                ELSE IF byId # 0 THEN table[byId]
                ELSE GoogleUser(table, idinfo)
        stamped == [user EXCEPT !.last_login = t]
    IN
    [table |-> IF uid \in DOMAIN table
               THEN [table EXCEPT ![uid] = stamped]
               ELSE Append(table, stamped),
     resp |-> [Response("google", 200, "Ok") EXCEPT
                   !.uid = uid, !.access = uid, !.refresh = uid],
     tokens |-> {AccessToken(uid), RefreshTokenOf(uid)}]

\* A handler that stamps last_login only on the users it links or creates.
GoogleView_stamps_new_only(table, idinfo, t) ==
    LET byId == find_by_google_id(table, idinfo.sub)
        byEmail == find_by_email(table, idinfo.email)
        uid == IF byId # 0 THEN byId
               ELSE IF byEmail # 0 THEN byEmail
               ELSE Len(table) + 1
        user == IF byId # 0 THEN table[byId]
                ELSE IF byEmail # 0
                THEN [LinkGoogle(table[byEmail], idinfo.sub, idinfo.picture)
                         EXCEPT !.last_login = t]
                ELSE [GoogleUser(table, idinfo) EXCEPT !.last_login = t]
    IN
    [table |-> IF uid \in DOMAIN table
               THEN [table EXCEPT ![uid] = user]
               ELSE Append(table, user),
     resp |-> [Response("google", 200, "Ok") EXCEPT
                   !.uid = uid, !.access = uid, !.refresh = uid],
     tokens |-> {AccessToken(uid), RefreshTokenOf(uid)}]

\* google_auth, lines 301-353, for a verified identity idinfo.
GoogleView(table, idinfo, t) ==
    LET byId == find_by_google_id(table, idinfo.sub)
        byEmail == find_by_email(table, idinfo.email)
        uid == IF byId # 0 THEN byId
               ELSE IF byEmail # 0 THEN byEmail
               ELSE Len(table) + 1
        user == IF byId # 0 THEN table[byId]
                ELSE IF byEmail # 0
                THEN LinkGoogle(table[byEmail], idinfo.sub, idinfo.picture)
                ELSE GoogleUser(table, idinfo)
        stamped == [user EXCEPT !.last_login = t]
    IN
    [table |-> IF uid \in DOMAIN table
               THEN [table EXCEPT ![uid] = stamped]
               ELSE Append(table, stamped),
     resp |-> [Response("google", 200, "Ok") EXCEPT
                   !.uid = uid, !.access = uid, !.refresh = uid],
     tokens |-> {AccessToken(uid), RefreshTokenOf(uid)}]

(***************************************************************************)
(* views/auth.py: refresh                                                  *)
(***************************************************************************)
\* A refresh that does not look at is_active.
RefreshView_ignores_active(table, token) ==
    IF token.type # "refresh"
    THEN [resp |-> Response("refresh", 422, "InvalidToken"), tokens |-> {}]
    ELSE IF token.sub \notin DOMAIN table
    THEN [resp |-> Response("refresh", 404, "UserNotFound"), tokens |-> {}]
    ELSE [resp |-> [Response("refresh", 200, "Ok") EXCEPT !.access = token.sub],
          tokens |-> {AccessToken(token.sub)}]

\* refresh, lines 464-482, behind jwt_required(refresh=True).
RefreshView(table, token) ==
    IF token.type # "refresh"
    THEN [resp |-> Response("refresh", 422, "InvalidToken"), tokens |-> {}]
    ELSE IF token.sub \notin DOMAIN table \/ ~table[token.sub].is_active
    THEN [resp |-> Response("refresh", 404, "UserNotFound"), tokens |-> {}]
    ELSE [resp |-> [Response("refresh", 200, "Ok") EXCEPT !.access = token.sub],
          tokens |-> {AccessToken(token.sub)}]

\* get_current_user, lines 484-500, behind jwt_required().
MeView(table, token) ==
    IF token.type # "access"
    THEN Response("me", 422, "InvalidToken")
    ELSE IF token.sub \notin DOMAIN table
    THEN Response("me", 404, "UserNotFound")
    ELSE [Response("me", 200, "Ok") EXCEPT !.uid = token.sub]

(***************************************************************************)
(* views/auth.py: the JSON bodies                                          *)
(***************************************************************************)
\* The keys of the jsonify(...) body of a response.
BodyKeys(r) ==
    IF r.status = 500 /\ r.kind = "Failed" THEN {"error", "details"}
    ELSE IF r.kind = "VerificationRequired"
    THEN {"error", "verification_required", "user_id"}
    ELSE IF r.status \notin {200, 201} THEN {"error"}
    ELSE IF r.op = "register"
    THEN IF r.email_sent
         THEN {"message", "email_sent", "otp_required", "user_role", "user_id"}
         ELSE {"message", "email_sent", "verification_required"}
    ELSE IF r.op = "resend_otp" THEN {"message", "email_sent"}
    ELSE IF r.op \in {"verify_otp", "login", "google"}
    THEN {"message", "user", "access_token", "refresh_token"}
    ELSE IF r.op = "refresh" THEN {"access_token"}
    ELSE IF r.op = "me" THEN {"user"}
    ELSE {}

(***************************************************************************)
(* State                                                                   *)
(*   users           the users table; the id of a row is its index         *)
(*   now             datetime.utcnow(), in minutes                         *)
(*   resp            the response of the last request                      *)
(*   issued          the tokens minted so far                              *)
(*   sess            per in-flight request: its position and the objects   *)
(*                   its SQLAlchemy session has loaded                     *)
(*   wrongEvaluated  per user: wrong codes User.verify_otp has compared    *)
(*                   with the code generated last (history variable)       *)
(***************************************************************************)
Procs == {1, 2}

Idle == [pc |-> "idle", data |-> <<>>, user_id |-> 0, otp_code |-> NoneInt,
         loaded |-> <<>>]

Init ==
    /\ users = <<>>
    /\ now = 0
    /\ resp = NoResp
    /\ issued = {}
    /\ sess = [p \in Procs |-> Idle]
    /\ wrongEvaluated = <<>>

\* wrongEvaluated after the table went from 'old' to 'new': a created user
\* starts at 0.
Track(old, new, counts) ==
    IF Len(new) > Len(old) THEN Append(counts, 0) ELSE counts

(***************************************************************************)
(* Requests served one at a time                                           *)
(***************************************************************************)
Tick ==
    /\ now + TickMinutes <= MaxTime
    /\ now' = now + TickMinutes
    /\ UNCHANGED <<users, resp, issued, sess, wrongEvaluated>>

Register(data, code, sent) ==
    LET c == RegisterCheck(users, data)
        r == RegisterInsert(users, data, code, sent, now)
    IN
    /\ IF c # NoResp
       THEN /\ resp' = c
            /\ UNCHANGED <<users, wrongEvaluated>>
       ELSE /\ Len(users) < MaxUsers
            /\ users' = r.table
            /\ resp' = r.resp
            /\ wrongEvaluated' = Track(users, r.table, wrongEvaluated)
    /\ UNCHANGED <<now, issued, sess>>

VerifyOtp(user_id, otp_code) ==
    LET c == VerifyPrecheck(users, user_id, otp_code) IN
    /\ IF c # NoResp
       THEN /\ resp' = c
            /\ UNCHANGED <<users, issued, wrongEvaluated>>
       ELSE \E after \in AfterCommit :
                LET r == VerifyFinish(users, user_id, users[user_id],
                                      otp_code, after, now)
                IN
                /\ users' = r.table
                /\ resp' = r.resp
                /\ issued' = issued \cup r.tokens
                /\ wrongEvaluated' =
                       IF r.resp.msg = MsgInvalid
                       THEN [wrongEvaluated EXCEPT ![user_id] = @ + 1]
                       ELSE wrongEvaluated
    /\ UNCHANGED <<now, sess>>

ResendOtp(user_id, code, sent) ==
    LET r == ResendView(users, user_id, code, sent, now) IN
    /\ users' = r.table
    /\ resp' = r.resp
    /\ wrongEvaluated' =
           IF r.table # users \/ r.resp.kind \in {"Ok", "NotifyFailed"}
           THEN [wrongEvaluated EXCEPT ![user_id] = 0]
           ELSE wrongEvaluated
    /\ UNCHANGED <<now, issued, sess>>

Login(email, password) ==
    LET r == LoginView(users, email, password, now) IN
    /\ users' = r.table
    /\ resp' = r.resp
    /\ issued' = issued \cup r.tokens
    /\ UNCHANGED <<now, sess, wrongEvaluated>>

\* google_auth, lines 282-298: no token, or a token the verifier rejects.
GoogleRejected(missing) ==
    /\ resp' = IF missing THEN Response("google", 400, "FieldMissing")
               ELSE Response("google", 401, "InvalidAssertion")
    /\ UNCHANGED <<users, now, issued, sess, wrongEvaluated>>

FederatedLogin(idinfo) ==
    LET r == GoogleView(users, idinfo, now) IN
    /\ Len(r.table) <= MaxUsers
    /\ users' = r.table
    /\ resp' = r.resp
    /\ issued' = issued \cup r.tokens
    /\ wrongEvaluated' = Track(users, r.table, wrongEvaluated)
    /\ UNCHANGED <<now, sess>>

RefreshToken(token) ==
    LET r == RefreshView(users, token) IN
    /\ resp' = r.resp
    /\ issued' = issued \cup r.tokens
    /\ UNCHANGED <<users, now, sess, wrongEvaluated>>

Me(token) ==
    /\ resp' = MeView(users, token)
    /\ UNCHANGED <<users, now, issued, sess, wrongEvaluated>>

\* Every operation, on requests about one address.
Next ==
    \/ Tick
    \/ \E data \in LifecycleBodies, code \in Codes, sent \in BOOLEAN :
           Register(data, code, sent)
    \/ \E user_id \in 0..MaxUsers, otp_code \in Codes \cup {NoneInt} :
           VerifyOtp(user_id, otp_code)
    \/ \E user_id \in 0..MaxUsers, code \in Codes, sent \in BOOLEAN :
           ResendOtp(user_id, code, sent)
    \/ \E email \in LifecycleEmails, password \in PasswordInputs : Login(email, password)
    \/ \E missing \in BOOLEAN : GoogleRejected(missing)
    \/ \E idinfo \in LifecycleIdentities : FederatedLogin(idinfo)
    \/ \E token \in issued : RefreshToken(token)
    \/ \E token \in issued : Me(token)

Spec == Init /\ [][Next]_vars

\* The operations that create, link and look up accounts, on requests about
\* several addresses.
NextAccounts ==
    \/ \E data \in AccountBodies, sent \in BOOLEAN : Register(data, OTP_LOW, sent)
    \/ \E email \in AccountEmails, password \in PasswordInputs : Login(email, password)
    \/ \E idinfo \in AccountIdentities : FederatedLogin(idinfo)

SpecAccounts == Init /\ [][NextAccounts]_vars

(***************************************************************************)
(* Requests in flight at the same time.  A request reads the table when    *)
(* its handler queries it and writes when its handler commits; another     *)
(* request may run in between.                                             *)
(***************************************************************************)
RaceBodies ==
    { ValidBody(StudentA, <<"a">>), ValidBody(StudentA, <<"b">>),
      ValidBody(LecturerB, <<"a">>) }

\* Requests that passed register's existence checks and have not committed.
Registering == {p \in Procs : sess[p].pc = "register"}

\* register up to line 54.
RegisterBegin(p, data) ==
    LET c == RegisterCheck(users, data) IN
    /\ sess[p].pc = "idle"
    /\ IF c # NoResp
       THEN /\ resp' = c
            /\ UNCHANGED sess
       ELSE /\ Len(users) + Cardinality(Registering) < MaxUsers
            /\ sess' = [sess EXCEPT ![p] = [Idle EXCEPT !.pc = "register", !.data = data]]
            /\ UNCHANGED resp
    /\ UNCHANGED <<users, now, issued, wrongEvaluated>>

\* register from line 57.
RegisterCommit(p, code, sent) ==
    LET r == RegisterInsert(users, sess[p].data, code, sent, now) IN
    /\ sess[p].pc = "register"
    /\ users' = r.table
    /\ resp' = r.resp
    /\ wrongEvaluated' = Track(users, r.table, wrongEvaluated)
    /\ sess' = [sess EXCEPT ![p] = Idle]
    /\ UNCHANGED <<now, issued>>

\* verify_otp up to line 119: User.query.get loads the row.
VerifyBegin(p, user_id, otp_code) ==
    LET c == VerifyPrecheck(users, user_id, otp_code) IN
    /\ sess[p].pc = "idle"
    /\ IF c # NoResp
       THEN /\ resp' = c
            /\ UNCHANGED sess
       ELSE /\ sess' = [sess EXCEPT ![p] =
                           [Idle EXCEPT !.pc = "verify", !.user_id = user_id,
                                        !.otp_code = otp_code,
                                        !.loaded = users[user_id]]]
            /\ UNCHANGED resp
    /\ UNCHANGED <<users, now, issued, wrongEvaluated>>

\* verify_otp from line 122: User.verify_otp on the loaded object, commit.
VerifyCommit(p) ==
    \E after \in AfterCommit :
    LET r == VerifyFinish(users, sess[p].user_id, sess[p].loaded,
                          sess[p].otp_code, after, now)
    IN
    /\ sess[p].pc = "verify"
    /\ users' = r.table
    /\ resp' = r.resp
    /\ issued' = issued \cup r.tokens
    /\ wrongEvaluated' =
           IF r.resp.msg = MsgInvalid
           THEN [wrongEvaluated EXCEPT ![sess[p].user_id] = @ + 1]
           ELSE wrongEvaluated
    /\ sess' = [sess EXCEPT ![p] = Idle]
    /\ UNCHANGED now

NextRace ==
    \/ \E p \in Procs, data \in RaceBodies : RegisterBegin(p, data)
    \/ \E p \in Procs, sent \in BOOLEAN : RegisterCommit(p, OTP_LOW, sent)
    \/ \E p \in Procs, otp_code \in Codes : VerifyBegin(p, 1, otp_code)
    \/ \E p \in Procs : VerifyCommit(p)

SpecRace == Init /\ [][NextRace]_vars

(***************************************************************************)
(* A resend in flight beside a verification of the same user               *)
(***************************************************************************)
\* resend_otp, lines 161-173: the response that ends the request before the
\* code is regenerated, or NoResp.
ResendPrecheck(table, user_id) ==
    IF user_id = 0
    THEN Response("resend_otp", 400, "FieldMissing")
    ELSE IF user_id \notin DOMAIN table
    THEN Response("resend_otp", 404, "UserNotFound")
    ELSE IF table[user_id].is_verified
    THEN Response("resend_otp", 400, "AlreadyVerified")
    ELSE NoResp

\* resend_otp, lines 175-193, for the user object loaded as 'loaded':
\* generate_otp, the commit, the mail and the response.
ResendFinish(table, user_id, loaded, code, sent, t) ==
    [table |-> [table EXCEPT ![user_id] =
                    Flush(@, loaded, generate_otp(loaded, code, t))],
     resp |-> IF sent
              THEN [Response("resend_otp", 200, "Ok") EXCEPT
                       !.email_sent = TRUE, !.otp_mail = code]
              ELSE Response("resend_otp", 500, "NotifyFailed")]

\* resend_otp up to line 173: User.query.get loads the row.
ResendBegin(p, user_id) ==
    LET c == ResendPrecheck(users, user_id) IN
    /\ sess[p].pc = "idle"
    /\ IF c # NoResp
       THEN /\ resp' = c
            /\ UNCHANGED sess
       ELSE /\ sess' = [sess EXCEPT ![p] =
                           [Idle EXCEPT !.pc = "resend", !.user_id = user_id,
                                        !.loaded = users[user_id]]]
            /\ UNCHANGED resp
    /\ UNCHANGED <<users, now, issued, wrongEvaluated>>

\* resend_otp from line 175: generate_otp on the loaded object, commit, mail.
ResendCommit(p, code, sent) ==
    LET r == ResendFinish(users, sess[p].user_id, sess[p].loaded, code, sent, now) IN
    /\ sess[p].pc = "resend"
    /\ users' = r.table
    /\ resp' = r.resp
    /\ wrongEvaluated' = [wrongEvaluated EXCEPT ![sess[p].user_id] = 0]
    /\ sess' = [sess EXCEPT ![p] = Idle]
    /\ UNCHANGED <<now, issued>>

\* One registration, then verifications and resends for that user that may
\* overlap.
NextResendRace ==
    \/ \E sent \in BOOLEAN : Register(ValidBody(StudentA, <<"a">>), OTP_LOW, sent)
    \/ \E p \in Procs, otp_code \in Codes : VerifyBegin(p, 1, otp_code)
    \/ \E p \in Procs : VerifyCommit(p)
    \/ \E p \in Procs : ResendBegin(p, 1)
    \/ \E p \in Procs, sent \in BOOLEAN : ResendCommit(p, OTP_HIGH, sent)

SpecResendRace == Init /\ [][NextResendRace]_vars

(***************************************************************************)
(* Sessions against a table that holds an account already                  *)
(***************************************************************************)
\* A user row stored earlier (scripts/create_test_users.py builds such rows
\* directly); is_active is a column only the database administration sets.
SeedUser(active, verified) ==
    [NewUser(StudentA, <<"a">>, generate_password_hash(GoodPassword),
             <<"student">>, verified, NoneStr, NoneStr)
        EXCEPT !.is_active = active]

\* Tokens minted in earlier sessions: for the stored user, and for a user
\* whose row is no longer in the table.
SeedTokens ==
    {AccessToken(1), RefreshTokenOf(1), AccessToken(MaxUsers + 1),
     RefreshTokenOf(MaxUsers + 1)}

\* Identities for the stored address, with no picture or one of two.
SessionIdentities ==
    [sub : GoogleIds, email : {StudentA},
     picture : Pictures \cup { <<"pic2">> }]

InitSessions ==
    /\ \E active \in BOOLEAN, verified \in BOOLEAN :
           users = <<SeedUser(active, verified)>>
    /\ now = 0
    /\ resp = NoResp
    /\ issued = SeedTokens
    /\ sess = [p \in Procs |-> Idle]
    /\ wrongEvaluated = <<0>>

NextSessions ==
    \/ Tick
    \/ \E email \in LifecycleEmails, password \in PasswordInputs : Login(email, password)
    \/ \E idinfo \in SessionIdentities : FederatedLogin(idinfo)
    \/ \E token \in issued : RefreshToken(token)
    \/ \E token \in issued : Me(token)

SpecSessions == InitSessions /\ [][NextSessions]_vars

(***************************************************************************)
(* Properties                                                              *)
(***************************************************************************)
\* A user with a code that User.verify_otp will look at.
HasCode(u) == u.otp_code # NoneInt /\ u.otp_expires_at # NoneInt

\* C1 (as stated): from a fresh code, each wrong submission made while the
\* code is unexpired adds one to otp_attempts and reports 4, 3, 2, 1, 0
\* attempts remaining; once five have been counted, every later submission
\* before regeneration fails with the too-many-attempts message, whatever
\* the code, and does not verify the user.
C1_LockMessageAlways ==
    [][\A uid \in DOMAIN users, c \in Codes :
          (VerifyOtp(uid, c) /\ ~users[uid].is_verified /\ HasCode(users[uid])) =>
             IF users[uid].otp_attempts < MAX_ATTEMPTS
             THEN (c # users[uid].otp_code /\ now <= users[uid].otp_expires_at) =>
                     /\ users'[uid].otp_attempts = users[uid].otp_attempts + 1
                     /\ resp'.remaining = 4 - users[uid].otp_attempts
             ELSE /\ resp'.msg = MsgTooMany
                  /\ ~users'[uid].is_verified]_vars

\* C1 (amended): while the code is unexpired, each wrong submission adds one
\* to otp_attempts and reports 4, 3, 2, 1, 0 attempts remaining, and once
\* five have been counted every submission, right code or wrong, fails with
\* the too-many-attempts message; after the expiry a submission against the
\* locked code fails with the expired message instead.  A locked code never
\* verifies the user and no submission against it changes the user.
C1_AttemptLock ==
    [][\A uid \in DOMAIN users, c \in Codes :
          (VerifyOtp(uid, c) /\ ~users[uid].is_verified /\ HasCode(users[uid])) =>
             IF users[uid].otp_attempts < MAX_ATTEMPTS
             THEN (c # users[uid].otp_code /\ now <= users[uid].otp_expires_at) =>
                     /\ users'[uid].otp_attempts = users[uid].otp_attempts + 1
                     /\ users[uid].otp_attempts \in 0..4
                     /\ resp'.msg = MsgInvalid
                     /\ resp'.remaining = 4 - users[uid].otp_attempts
                     /\ ~users'[uid].is_verified
             ELSE /\ resp'.status = 400
                  /\ resp'.msg = IF now <= users[uid].otp_expires_at
                                 THEN MsgTooMany ELSE MsgExpired
                  /\ resp'.access = 0
                  /\ users' = users]_vars

\* C1 witness: a submission has just been refused as one too many, after
\* five wrong ones were counted against the code.
C1_Witness ==
    /\ resp.op = "verify_otp"
    /\ resp.msg = MsgTooMany
    /\ \E uid \in DOMAIN users :
           /\ users[uid].otp_attempts = MAX_ATTEMPTS
           /\ HasCode(users[uid])
           /\ ~users[uid].is_verified

\* C2: for every user, generate_otp followed at once by verify_otp with the
\* returned code succeeds, sets is_verified and clears the three OTP fields;
\* verify_otp with the same code again fails with the no-OTP message and
\* changes nothing.
C2_GenerateVerifyOnce ==
    \A uid \in DOMAIN users, c \in Codes :
        LET g == generate_otp(users[uid], c, now)
            first == verify_otp(g, c, now)
            second == verify_otp(first.user, c, now)
        IN
        /\ first.ok
        /\ first.user.is_verified
        /\ first.user.otp_code = NoneInt
        /\ first.user.otp_expires_at = NoneInt
        /\ first.user.otp_attempts = 0
        /\ ~second.ok
        /\ second.msg = MsgNoOtp
        /\ second.user = first.user

\* C2 witness: the code generated for a user has just verified that user,
\* and submitting any code again now finds no OTP.
C2_Witness ==
    /\ resp.op = "verify_otp"
    /\ resp.status = 200
    /\ resp.uid \in DOMAIN users
    /\ users[resp.uid].is_verified
    /\ users[resp.uid].otp_code = NoneInt
    /\ \A c \in Codes : verify_otp(users[resp.uid], c, now).msg = MsgNoOtp

\* C3: a code generated at time t expires at t + 10 minutes; with fewer than
\* five attempts counted, the right code verifies the user before t + 10
\* minutes (the answer is 200, or 500 when the handler fails after its
\* commit), and after t + 10 minutes every submission fails with the expired
\* message and leaves is_verified, the code and the counter as they were.
C3_Expiry ==
    [][/\ \A uid \in DOMAIN users' :
              ( /\ users'[uid].otp_expires_at # NoneInt
                /\ (uid \in DOMAIN users =>
                       \/ users'[uid].otp_expires_at # users[uid].otp_expires_at
                       \/ users'[uid].otp_code # users[uid].otp_code) )
              => users'[uid].otp_expires_at = now + OTP_MINUTES
       /\ \A uid \in DOMAIN users, c \in Codes :
              ( /\ VerifyOtp(uid, c)
                /\ ~users[uid].is_verified
                /\ HasCode(users[uid])
                /\ users[uid].otp_attempts < MAX_ATTEMPTS ) =>
                  /\ (c = users[uid].otp_code /\ now < users[uid].otp_expires_at) =>
                         /\ \/ resp'.status = 200
                            \/ resp' = Response("verify_otp", 500, "Failed")
                         /\ users'[uid].is_verified
                  /\ now > users[uid].otp_expires_at =>
                         /\ resp'.msg = MsgExpired
                         /\ resp'.status = 400
                         /\ users' = users]_vars

\* C3 witness: a submission has just been refused as expired, for a user
\* whose code had attempts left.
C3_Witness ==
    /\ resp.op = "verify_otp"
    /\ resp.msg = MsgExpired
    /\ \E uid \in DOMAIN users :
           /\ HasCode(users[uid])
           /\ now > users[uid].otp_expires_at
           /\ users[uid].otp_attempts < MAX_ATTEMPTS
           /\ ~users[uid].is_verified

C5_VerifiedMonotonic ==
    [][\A uid \in DOMAIN users :
          users[uid].is_verified =>
              uid \in DOMAIN users' /\ users'[uid].is_verified]_vars

\* C5 witness: an account verified by its code was later linked to a Google
\* identity and is still verified.
C5_Witness ==
    /\ resp.op = "google"
    /\ resp.uid \in DOMAIN users
    /\ users[resp.uid].is_verified
    /\ users[resp.uid].password_hash # NoneStr
    /\ users[resp.uid].google_id # NoneStr

\* C6: whenever VerifyOtp, Login or FederatedLogin has returned a token pair
\* for a user, that user is verified.
C6_TokensOnlyForVerified ==
    (resp.op \in {"verify_otp", "login", "google"} /\ resp.access # 0) =>
        /\ resp.access \in DOMAIN users
        /\ users[resp.access].is_verified

\* C7: no two distinct users have emails that are equal ignoring letter case.
C7_EmailUniqueIgnoringCase ==
    \A i \in DOMAIN users, j \in DOMAIN users :
        i # j => Lower(users[i].email) # Lower(users[j].email)

\* C8: once a Register has created a user with email e and username u, a
\* later, otherwise valid Register with the address e in any letter case
\* fails with EmailTaken (409), one with another address and the username u
\* fails with UsernameTaken (409), and neither changes the table.
C8_DuplicateRegistration ==
    [][\A data \in AccountBodies, sent \in BOOLEAN :
          (Register(data, OTP_LOW, sent) /\ RegisterCheck(<<>>, data) = NoResp) =>
              LET registered == {uid \in DOMAIN users : users[uid].password_hash # NoneStr}
                  sameEmail == \E uid \in registered :
                                   users[uid].email = Strip(Lower(data.email))
                  sameName == \E uid \in registered :
                                   users[uid].username = data.username
              IN
              /\ sameEmail =>
                     /\ resp'.kind = "EmailTaken"
                     /\ resp'.status = 409
                     /\ users' = users
              /\ (~sameEmail /\ sameName) =>
                     /\ resp'.kind = "UsernameTaken"
                     /\ resp'.status = 409
                     /\ users' = users]_vars

\* C9: when a Register that passed the existence checks meets the unique
\* constraint at its commit, because another Register for the same email or
\* username committed in between, no second user is created and the request
\* reports EmailTaken or UsernameTaken (409).
C9_RaceReportsConflict ==
    [][\A p \in Procs, sent \in BOOLEAN :
          ( /\ RegisterCommit(p, OTP_LOW, sent)
            /\ UniqueViolation(users, RegisterUser(sess[p].data, OTP_LOW, now)) ) =>
              /\ users' = users
              /\ resp'.kind \in {"EmailTaken", "UsernameTaken"}
              /\ resp'.status = 409]_vars

\* C10: for every user with a code, the stored otp_attempts equals the number
\* of wrong submissions User.verify_otp has compared with that code, and that
\* number never exceeds five.
C10_NoLostAttempt ==
    \A uid \in DOMAIN users :
        HasCode(users[uid]) =>
            /\ users[uid].otp_attempts = wrongEvaluated[uid]
            /\ wrongEvaluated[uid] <= MAX_ATTEMPTS

\* The password a stored hash was made from.
StoredPassword(u) == Tail(u.password_hash)

\* The letter-case variants of an email among the emails clients send.
CaseVariants(email) == {e \in LifecycleEmails \cup AccountEmails : Lower(e) = Lower(email)}

\* C11: for every stored account with a password and every letter-case
\* variant of its email, Login with the stored password has the outcome of
\* Login with the stored email, and Login with a password that differs from
\* the stored one only in letter case fails with InvalidCredentials (401)
\* and changes nothing.
C11_LoginCaseRules ==
    \A uid \in DOMAIN users :
        users[uid].password_hash # NoneStr =>
            \A e \in CaseVariants(users[uid].email) :
                /\ LoginView(users, e, StoredPassword(users[uid]), now)
                       = LoginView(users, users[uid].email, StoredPassword(users[uid]), now)
                /\ \A p \in PasswordInputs :
                       (p # StoredPassword(users[uid])
                            /\ Lower(p) = Lower(StoredPassword(users[uid]))) =>
                           LET r == LoginView(users, e, p, now) IN
                           /\ r.resp.kind = "InvalidCredentials"
                           /\ r.resp.status = 401
                           /\ r.tokens = {}
                           /\ r.table = users

\* C11 witness: a verified account has just logged in, the upper-case
\* spelling of its email logs in as well, and its password in another
\* letter case does not.
C11_Witness ==
    /\ resp.op = "login"
    /\ resp.status = 200
    /\ resp.uid \in DOMAIN users
    /\ users[resp.uid].email = StudentA
    /\ LoginView(users, StudentAUpper, GoodPassword, now).resp.status = 200
    /\ LoginView(users, StudentAUpper, UpperPassword, now).resp.status = 401

\* A login request that passes the field and format checks of the handler.
WellFormedLogin(email, password) ==
    email # <<>> /\ password # <<>> /\ validate_email(Strip(Lower(email)))

\* The stored user a login request names with matching credentials, else 0.
Authenticated(email, password) ==
    LET uid == find_by_email(users, Strip(Lower(email))) IN
    IF uid # 0 /\ users[uid].password_hash = generate_password_hash(password)
    THEN uid ELSE 0

\* C12: a well-formed Login returns tokens and stamps last_login exactly when
\* the email names a stored user, the password matches its hash, and the
\* user is active and verified; otherwise it answers InvalidCredentials,
\* else AccountDeactivated, else VerificationRequired with the user's id,
\* and changes no user.
C12_LoginOutcome ==
    [][\A e \in LifecycleEmails, p \in PasswordInputs :
          (Login(e, p) /\ WellFormedLogin(e, p)) =>
              LET uid == Authenticated(e, p) IN
              IF uid # 0 /\ users[uid].is_active /\ users[uid].is_verified
              THEN /\ resp'.status = 200
                   /\ resp'.access = uid
                   /\ resp'.refresh = uid
                   /\ users' = [users EXCEPT ![uid].last_login = now]
              ELSE /\ users' = users
                   /\ resp'.access = 0
                   /\ resp'.refresh = 0
                   /\ resp'.status = 401
                   /\ resp'.kind = IF uid = 0 THEN "InvalidCredentials"
                                   ELSE IF ~users[uid].is_active THEN "AccountDeactivated"
                                   ELSE "VerificationRequired"
                   /\ (uid # 0 /\ users[uid].is_active) => resp'.uid = uid]_vars

\* C13: in every state, Login with a well-formed email no user has and Login
\* with the email of a stored user and a password that does not match give
\* the same InvalidCredentials response, also when the stored user has no
\* password hash.
C13_LoginHidesRegistration ==
    \A e \in LifecycleEmails \cup AccountEmails, p \in PasswordInputs :
        (WellFormedLogin(e, p) /\ Authenticated(e, p) = 0) =>
            LoginView(users, e, p, now).resp = Response("login", 401, "InvalidCredentials")

\* C14: after FederatedLogin with an identity, every further FederatedLogin
\* with the same identity returns the same user id and leaves the number of
\* users as the first call left it.
C14_FederatedIdempotent ==
    [][\A idinfo \in AccountIdentities :
          FederatedLogin(idinfo) =>
              LET second == GoogleView(users', idinfo, now')
                  third == GoogleView(second.table, idinfo, now')
              IN
              /\ second.resp.uid = resp'.uid
              /\ third.resp.uid = resp'.uid
              /\ Len(second.table) = Len(users')
              /\ Len(third.table) = Len(users')]_vars

\* C14 witness: among several users, the state and response are those a
\* FederatedLogin with some identity produces when it is repeated.
C14_Witness ==
    /\ resp.op = "google"
    /\ Len(users) >= 2
    /\ \E idinfo \in AccountIdentities :
           /\ GoogleView(users, idinfo, now).table = users
           /\ GoogleView(users, idinfo, now).resp = resp

\* Some user of the table has the username.
UsernameTaken(table, username) ==
    \E i \in DOMAIN table : table[i].username = username

\* C15: when FederatedLogin creates an account for local@domain, its username
\* is local if no user had it, otherwise local followed by the smallest
\* k >= 1 whose name no user had; k is at most the number of users plus one
\* and the name was held by no user.
C15_UsernameCollision ==
    [][\A idinfo \in AccountIdentities :
          (FederatedLogin(idinfo) /\ Len(users') = Len(users) + 1) =>
              LET local == LocalPart(idinfo.email)
                  name == users'[Len(users')].username
              IN
              /\ ~UsernameTaken(users, name)
              /\ IF ~UsernameTaken(users, local)
                 THEN name = local
                 ELSE \E k \in 1..(Len(users) + 1) :
                          /\ name = local \o IntToStr(k)
                          /\ \A j \in 1..(k - 1) :
                                 UsernameTaken(users, local \o IntToStr(j))]_vars

\* C15 witness: a Google-created account was given the suffix 2 because the
\* local part of its email and that part followed by 1 were both taken.
C15_Witness ==
    \E i \in DOMAIN users :
        /\ users[i].google_id # NoneStr
        /\ users[i].password_hash = NoneStr
        /\ users[i].username = LocalPart(users[i].email) \o <<"2">>
        /\ UsernameTaken(users, LocalPart(users[i].email))
        /\ UsernameTaken(users, LocalPart(users[i].email) \o <<"1">>)

\* The users of the table with the Google id, and those with the email.
UsersWithGoogleId(table, sub) == {i \in DOMAIN table : table[i].google_id = sub}
UsersWithEmail(table, email) == {i \in DOMAIN table : table[i].email = email}

\* C16: FederatedLogin returns the user that has the Google id and changes
\* no other user; only when there is none it returns the user that has the
\* email, sets that user's Google id and changes no other user; only when
\* there is none either it appends one user. In particular, when user A has
\* the id and another user B has the email, A is returned and B is unchanged.
C16_ResolutionOrder ==
    [][\A idinfo \in AccountIdentities :
          FederatedLogin(idinfo) =>
              LET ids == UsersWithGoogleId(users, idinfo.sub)
                  mails == UsersWithEmail(users, idinfo.email)
              IN
              IF ids # {}
              THEN /\ resp'.uid \in ids
                   /\ users' = [users EXCEPT ![resp'.uid].last_login = now]
              ELSE IF mails # {}
              THEN /\ resp'.uid \in mails
                   /\ users'[resp'.uid].google_id = idinfo.sub
                   /\ Len(users') = Len(users)
                   /\ \A i \in DOMAIN users : i # resp'.uid => users'[i] = users[i]
              ELSE /\ resp'.uid = Len(users) + 1
                   /\ Len(users') = Len(users) + 1
                   /\ SubSeq(users', 1, Len(users)) = users
                   /\ users'[resp'.uid].google_id = idinfo.sub
                   /\ users'[resp'.uid].email = idinfo.email]_vars

\* C16 witness: FederatedLogin has returned user A, who has the Google id of
\* an identity, while the email of that identity belongs to another user B
\* who has a password and no Google id.
C16_Witness ==
    /\ resp.op = "google"
    /\ \E idinfo \in AccountIdentities :
           \E A \in UsersWithGoogleId(users, idinfo.sub),
              B \in UsersWithEmail(users, idinfo.email) :
               /\ A # B
               /\ resp.uid = A
               /\ users[B].google_id = NoneStr
               /\ users[B].password_hash # NoneStr
               /\ users[B].last_login = NoneInt

\* A user as the creation branch of FederatedLogin leaves it: verified, with
\* no password hash and no one-time code.
FederatedOnly(u) ==
    /\ u.is_verified
    /\ u.password_hash = NoneStr
    /\ u.otp_code = NoneInt
    /\ u.otp_expires_at = NoneInt
    /\ u.otp_attempts = 0

\* C17: the account FederatedLogin creates is verified and has no password
\* hash and no pending code when it is stored, and every account without a
\* password hash stays so after every later operation.
C17_CreatedVerified ==
    [][/\ \A idinfo \in LifecycleIdentities :
              (FederatedLogin(idinfo) /\ Len(users') = Len(users) + 1) =>
                  FederatedOnly(users'[Len(users')])
       /\ \A i \in DOMAIN users :
              users[i].password_hash = NoneStr =>
                  (i \in DOMAIN users' /\ FederatedOnly(users'[i]))]_vars

\* C17 witness: a new code was requested for a Google-created account and
\* refused, and the account still has none.
C17_Witness ==
    /\ resp.op = "resend_otp"
    /\ resp.kind = "AlreadyVerified"
    /\ \E i \in DOMAIN users :
           /\ users[i].google_id # NoneStr
           /\ FederatedOnly(users[i])

\* C18: for every registration request, an email the student validation
\* accepts is given the role student, an email the lecturer validation
\* accepts (any domain of the lecturer list, in any letter case) is given the
\* role lecturer, and no email is accepted by both validations.
C18_RoleAgreesWithLists ==
    [][\A data \in AccountBodies, sent \in BOOLEAN :
          Register(data, OTP_LOW, sent) =>
              /\ validate_student_email(data.email) =>
                     detect_role_from_email(data.email) = <<"student">>
              /\ validate_lecturer_email(data.email) =>
                     detect_role_from_email(data.email) = <<"lecturer">>
              /\ ~(validate_student_email(data.email)
                       /\ validate_lecturer_email(data.email))]_vars

\* The email ends, in some letter case, with a domain of one of the lists.
OnAllowList(email) ==
    \E domain \in allowed_student_domains \cup allowed_lecturer_domains :
        EndsWith(Lower(email), domain)

\* The registration requests with all fields present and an email whose
\* domain is on neither allow-list.
OutsiderBodies ==
    { data \in LifecycleBodies :
          /\ data.email # <<>> /\ data.username # <<>> /\ data.password # <<>>
          /\ data.first_name # <<>> /\ data.last_name # <<>>
          /\ ~OnAllowList(data.email) }

\* C19: Register with all fields present and an email whose domain is on
\* neither allow-list gives the email the role student, answers
\* InvalidEmailDomain (400) and stores no user.
C19_OutsiderRejected ==
    [][\A data \in OutsiderBodies, code \in Codes, sent \in BOOLEAN :
          (resp'.op = "register" /\ Register(data, code, sent)) =>
              /\ detect_role_from_email(data.email) = <<"student">>
              /\ resp' = Response("register", 400, "InvalidEmailDomain")
              /\ users' = users]_vars

\* C19 witness: a registration was refused for its email domain while an
\* account exists, and the account is the only user.
C19_Witness ==
    /\ resp.op = "register"
    /\ resp.kind = "InvalidEmailDomain"
    /\ Len(users) = 1
    /\ users[1].email = StudentA

\* C20: after every step, every user has the role detect_role_from_email
\* gives for the user's email, whether Register or FederatedLogin created
\* the user, and no step changes the role of a stored user.
C20_RoleFixedAtCreation ==
    [][/\ \A i \in DOMAIN users' :
              users'[i].role = detect_role_from_email(users'[i].email)
       /\ \A i \in DOMAIN users :
              i \in DOMAIN users' /\ users'[i].role = users[i].role]_vars

\* The one-time code fields of a user are cleared.
OtpCleared(u) ==
    u.otp_code = NoneInt /\ u.otp_expires_at = NoneInt /\ u.otp_attempts = 0

\* C21: when VerifyOtp submits a code that User.verify_otp accepts, the user
\* is verified with the code fields cleared after the request, whether the
\* welcome mail was sent, failed, or a later statement of the handler
\* raised; and no step makes a verified user unverified or gives it a code.
C21_VerificationSurvivesFailure ==
    [][/\ \A uid \in DOMAIN users, code \in Codes :
              (/\ ~users[uid].is_verified
               /\ verify_otp(users[uid], code, now).ok
               /\ VerifyOtp(uid, code)) =>
                  (users'[uid].is_verified /\ OtpCleared(users'[uid]))
       /\ \A uid \in DOMAIN users :
              (users[uid].is_verified /\ OtpCleared(users[uid])) =>
                  (users'[uid].is_verified /\ OtpCleared(users'[uid]))]_vars

\* C21 witness: a verification succeeded although the welcome mail failed.
C21_Witness ==
    /\ resp.op = "verify_otp"
    /\ resp.status = 200
    /\ ~resp.welcome_mail
    /\ users[resp.uid].is_verified
    /\ OtpCleared(users[resp.uid])

\* C22: when Register stores a user and its code mail fails, the user is
\* unverified with the pending code, and the response is 201, reports that
\* no mail was sent and carries the id of the new user.
C22_RegisterMailFailure ==
    [][\A data \in LifecycleBodies, code \in Codes :
          (Register(data, code, FALSE) /\ Len(users') = Len(users) + 1) =>
              /\ ~users'[Len(users')].is_verified
              /\ users'[Len(users')].otp_code = code
              /\ users'[Len(users')].otp_expires_at = now + OTP_MINUTES
              /\ resp'.status = 201
              /\ ~resp'.email_sent
              /\ resp'.uid = Len(users')]_vars

\* C23: for a verified user, VerifyOtp with a code and ResendOtp both answer
\* AlreadyVerified (400), change no field of any user, mint no token and
\* send no mail.
C23_VerifiedTerminal ==
    [][\A uid \in DOMAIN users :
          users[uid].is_verified =>
              /\ \A code \in Codes :
                     VerifyOtp(uid, code) =>
                         /\ resp' = Response("verify_otp", 400, "AlreadyVerified")
                         /\ users' = users
                         /\ issued' = issued
              /\ \A code \in Codes, sent \in BOOLEAN :
                     ResendOtp(uid, code, sent) =>
                         /\ resp' = Response("resend_otp", 400, "AlreadyVerified")
                         /\ users' = users]_vars

\* C23 witness: a code was submitted for a user who had logged in as
\* verified, and was refused as already verified.
C23_Witness ==
    /\ resp = Response("verify_otp", 400, "AlreadyVerified")
    /\ \E uid \in DOMAIN users :
           users[uid].is_verified /\ users[uid].last_login # NoneInt

\* C24: RefreshToken with a refresh token whose subject is a stored, active
\* user answers 200 with a new access token for that subject and no refresh
\* token; with an access token, or for a missing or deactivated subject, it
\* fails and mints nothing. It changes no user.
C24_RefreshRules ==
    [][\A token \in issued :
          RefreshToken(token) =>
              /\ users' = users
              /\ IF /\ token.type = "refresh"
                    /\ token.sub \in DOMAIN users
                    /\ users[token.sub].is_active
                 THEN /\ resp'.status = 200
                      /\ resp'.access = token.sub
                      /\ resp'.refresh = 0
                      /\ issued' = issued \cup {AccessToken(token.sub)}
                 ELSE /\ resp'.status # 200
                      /\ resp'.access = 0
                      /\ resp'.refresh = 0
                      /\ issued' = issued]_vars

\* C24 witness: a refresh was refused for a deactivated user who holds a
\* refresh token.
C24_Witness ==
    /\ resp = Response("refresh", 404, "UserNotFound")
    /\ ~users[1].is_active
    /\ RefreshTokenOf(1) \in issued

\* The registration requests with all fields, an email the student
\* validation accepts and a password of at least 8 characters.
StudentBodies ==
    { data \in LifecycleBodies :
          /\ data.username # <<>> /\ data.first_name # <<>> /\ data.last_name # <<>>
          /\ validate_student_email(data.email)
          /\ Len(data.password) >= MIN_PASSWORD_LEN }

\* A user whose pending code User.verify_otp would still compare at time t.
CodeUsable(u, t) ==
    HasCode(u) /\ ~(t > u.otp_expires_at) /\ u.otp_attempts < MAX_ATTEMPTS

\* C25: (1) a Register that stores a user for a valid student email and a
\* password of 8 characters or more stores it with role student and
\* unverified; (2) VerifyOtp with that user's code, while the code is usable,
\* verifies the user and, unless the handler fails after its commit,
\* answers 200 with both tokens and stamps last_login; (3) Login with the
\* email and password of the verified user answers 200 with both tokens and
\* a last_login not earlier than the stored one.
C25_EndToEnd ==
    [][/\ \A data \in StudentBodies, code \in Codes, sent \in BOOLEAN :
              (Len(users') = Len(users) + 1 /\ Register(data, code, sent)) =>
                  /\ users'[Len(users')].role = <<"student">>
                  /\ ~users'[Len(users')].is_verified
                  /\ users'[Len(users')].password_hash
                         = generate_password_hash(data.password)
       /\ \A uid \in DOMAIN users :
              (/\ ~users[uid].is_verified
               /\ CodeUsable(users[uid], now)
               /\ resp'.op = "verify_otp"
               /\ VerifyOtp(uid, users[uid].otp_code)) =>
                  /\ users'[uid].is_verified
                  /\ \/ resp' = Response("verify_otp", 500, "Failed")
                     \/ /\ resp'.status = 200
                        /\ resp'.access = uid
                        /\ resp'.refresh = uid
                        /\ {AccessToken(uid), RefreshTokenOf(uid)} \subseteq issued'
                        /\ users'[uid].last_login = now
       /\ \A uid \in DOMAIN users, e \in LifecycleEmails :
              (/\ users[uid].is_verified
               /\ users[uid].password_hash # NoneStr
               /\ resp'.op = "login"
               /\ Strip(Lower(e)) = users[uid].email
               /\ Login(e, StoredPassword(users[uid]))) =>
                  /\ resp'.status = 200
                  /\ resp'.access = uid
                  /\ resp'.refresh = uid
                  /\ {AccessToken(uid), RefreshTokenOf(uid)} \subseteq issued'
                  /\ users'[uid].last_login = now
                  /\ users'[uid].last_login >= users[uid].last_login]_vars

\* C25 witness: a registered student who verified by code at an earlier time
\* has logged in with the password.
C25_Witness ==
    /\ resp.op = "login"
    /\ resp.status = 200
    /\ resp.uid \in DOMAIN users
    /\ users[resp.uid].role = <<"student">>
    /\ users[resp.uid].google_id = NoneStr
    /\ users[resp.uid].is_verified
    /\ OtpCleared(users[resp.uid])
    /\ users[resp.uid].last_login = now
    /\ now > 0

\* C26: ResendOtp for an unverified user, whatever code state the user was
\* in, leaves the user with the new code, otp_attempts = 0 and expiry
\* now + 10 minutes and changes nothing else; the new code verifies, and the
\* previous code, when it differs, does not: submitting it is counted as one
\* wrong attempt.
C26_GenerateOverwrites ==
    [][\A uid \in DOMAIN users, code \in Codes, sent \in BOOLEAN :
          (/\ ~users[uid].is_verified
           /\ resp'.op = "resend_otp"
           /\ ResendOtp(uid, code, sent)) =>
              /\ users' = [users EXCEPT ![uid] =
                              [@ EXCEPT !.otp_code = code,
                                        !.otp_attempts = 0,
                                        !.otp_expires_at = now + OTP_MINUTES]]
              /\ verify_otp(users'[uid], code, now).ok
              /\ (users[uid].otp_code # code) =>
                     LET v == verify_otp(users'[uid], users[uid].otp_code, now) IN
                     /\ ~v.ok
                     /\ v.msg = MsgInvalid
                     /\ v.user.otp_attempts = 1
                     /\ ~v.user.is_verified]_vars

\* C26 witness: a new code was mailed to an unverified user and is the one
\* stored, with a fresh expiry and no attempts counted.
C26_Witness ==
    /\ resp.op = "resend_otp"
    /\ resp.status = 200
    /\ \E uid \in DOMAIN users :
           /\ ~users[uid].is_verified
           /\ users[uid].otp_code = resp.otp_mail
           /\ users[uid].otp_attempts = 0
           /\ users[uid].otp_expires_at = now + OTP_MINUTES

\* C27: (1) while the code of an unverified user is expired or its attempts
\* are used up, no VerifyOtp verifies the user or mints a token; (2) after
\* ResendOtp, which every state allows, the user has a usable code with no
\* attempts counted, and VerifyOtp with that code at that time passes the
\* checks of the handler and verifies the user.
C27_Recovery ==
    [][/\ \A uid \in DOMAIN users, code \in Codes :
              (/\ ~users[uid].is_verified
               /\ HasCode(users[uid])
               /\ ~CodeUsable(users[uid], now)
               /\ resp'.op = "verify_otp"
               /\ VerifyOtp(uid, code)) =>
                  /\ ~users'[uid].is_verified
                  /\ resp'.status = 400
                  /\ issued' = issued
       /\ \A uid \in DOMAIN users, code \in Codes, sent \in BOOLEAN :
              (/\ ~users[uid].is_verified
               /\ resp'.op = "resend_otp"
               /\ ResendOtp(uid, code, sent)) =>
                  /\ CodeUsable(users'[uid], now)
                  /\ users'[uid].otp_attempts = 0
                  /\ VerifyPrecheck(users', uid, code) = NoResp
                  /\ \A after \in AfterCommit :
                         VerifyFinish(users', uid, users'[uid], code, after, now)
                             .table[uid].is_verified]_vars

\* C27 witness: a code was refused for an unverified user whose code is
\* expired or locked, and a resend would make the user's code usable again.
C27_Witness ==
    /\ resp.op = "verify_otp"
    /\ resp.status = 400
    /\ \E uid \in DOMAIN users :
           /\ ~users[uid].is_verified
           /\ HasCode(users[uid])
           /\ ~CodeUsable(users[uid], now)
           /\ CodeUsable(ResendView(users, uid, OTP_LOW, TRUE, now).table[uid], now)

\* The response is a successful authentication.
Authenticates(r) ==
    r.op \in {"login", "verify_otp", "google"} /\ r.status = 200

\* C28: every request that ends as a successful Login, VerifyOtp or
\* FederatedLogin (found by Google id, linked by email, or created) leaves
\* last_login of its user at the time of the request in the table, together
\* with the tokens it mints, and changes last_login of no other user; every
\* other request changes last_login of no user.
C28_LastLoginStamp ==
    [][(now' = now) =>
          IF Authenticates(resp')
          THEN /\ resp'.uid \in DOMAIN users'
               /\ users'[resp'.uid].last_login = now
               /\ {AccessToken(resp'.uid), RefreshTokenOf(resp'.uid)} \subseteq issued'
               /\ \A i \in DOMAIN users :
                      i # resp'.uid => users'[i].last_login = users[i].last_login
          ELSE /\ issued' \ issued \subseteq {AccessToken(resp'.access)}
               /\ \A i \in DOMAIN users :
                      users'[i].last_login = users[i].last_login]_vars

\* C28 witness: a FederatedLogin found a user who has a password and had
\* logged in at an earlier time, and stamped the present time.
C28_Witness ==
    /\ resp.op = "google"
    /\ resp.status = 200
    /\ users[resp.uid].password_hash # NoneStr
    /\ users[resp.uid].google_id # NoneStr
    /\ users[resp.uid].last_login = now
    /\ now > 0

\* The columns that must not leave the server.
SensitiveColumns == {"password_hash", "otp_code", "otp_expires_at", "otp_attempts"}

\* The twelve public fields of the user representation.
PublicFields ==
    { "id", "email", "username", "first_name", "last_name", "profile_picture",
      "phone_number", "role", "is_active", "is_verified", "created_at",
      "last_login" }

C30_CheckOrder ==
    [][/\ \A uid \in DOMAIN users, code \in Codes :
              (/\ ~users[uid].is_verified
               /\ resp'.op = "verify_otp"
               /\ VerifyOtp(uid, code)) =>
                  LET u == users[uid] IN
                  IF ~HasCode(u)
                  THEN resp'.msg = MsgNoOtp /\ users' = users
                  ELSE IF now > u.otp_expires_at
                  THEN resp'.msg = MsgExpired /\ users' = users
                  ELSE IF u.otp_attempts >= MAX_ATTEMPTS
                  THEN resp'.msg = MsgTooMany /\ users' = users
                  ELSE IF code = u.otp_code
                  THEN users'[uid].is_verified
                  ELSE /\ resp'.msg = MsgInvalid
                       /\ users' = [users EXCEPT ![uid].otp_attempts = @ + 1]
       /\ \A uid \in DOMAIN users, code \in Codes :
              ~HasCode(users[uid]) =>
                  LET v == verify_otp(users[uid], code, now) IN
                  ~v.ok /\ v.msg = MsgNoOtp /\ v.user = users[uid]]_vars

\* C30 witness: a code was refused as expired for an unverified user whose
\* five attempts are used up as well.
C30_Witness ==
    /\ resp.op = "verify_otp"
    /\ resp.msg = MsgExpired
    /\ \E uid \in DOMAIN users :
           /\ ~users[uid].is_verified
           /\ HasCode(users[uid])
           /\ now > users[uid].otp_expires_at
           /\ users[uid].otp_attempts = MAX_ATTEMPTS

\* A registration body breaks a precondition of Register: a required field
\* is missing, the address is not on the allow-lists, the password is
\* shorter than eight characters, or the email (ignoring letter case) or
\* the username (as it would be stored) belongs to a user of the table.
RegisterRefused(table, data) ==
    \/ data.email = <<>> \/ data.username = <<>> \/ data.password = <<>>
    \/ data.first_name = <<>> \/ data.last_name = <<>>
    \/ ~validate_institutional_email(data.email, detect_role_from_email(data.email))
    \/ Len(data.password) < MIN_PASSWORD_LEN
    \/ \E i \in DOMAIN table : Lower(table[i].email) = Lower(data.email)
    \/ UsernameTaken(table, Strip(data.username))

\* C31: a Register whose body breaks a precondition (missing field, address
\* off the allow-lists, password shorter than eight characters, email or
\* username in use) leaves the table as it was and sends no code; and no
\* Register with a password of eight or more characters is answered with
\* WeakPassword.
C31_RefusedRegisterNoEffect ==
    [][\A data \in AccountBodies, sent \in BOOLEAN :
          (resp'.op = "register" /\ Register(data, OTP_LOW, sent)) =>
              /\ RegisterRefused(users, data) =>
                     /\ users' = users
                     /\ resp'.otp_mail = NoneInt
                     /\ ~resp'.email_sent
                     /\ resp'.status \notin {200, 201}
              /\ Len(data.password) >= MIN_PASSWORD_LEN =>
                     resp'.kind # "WeakPassword"]_vars

\* C32: no two distinct users have the same username, and no two distinct
\* users have the same Google id unless it is None; this also holds after
\* FederatedLogin has linked an account by email and overwritten its id.
C32_UniqueNameAndGoogleId ==
    \A i \in DOMAIN users, j \in DOMAIN users :
        i # j =>
            /\ users[i].username # users[j].username
            /\ users[i].google_id # NoneStr => users[i].google_id # users[j].google_id

\* C32 witness: FederatedLogin has returned a registered user (one with a
\* password) that it linked to a Google id, while another user, created by
\* FederatedLogin under a suffixed username, holds the other Google id.
C32_Witness ==
    /\ resp.op = "google"
    /\ resp.uid \in DOMAIN users
    /\ users[resp.uid].password_hash # NoneStr
    /\ users[resp.uid].google_id # NoneStr
    /\ \E j \in DOMAIN users :
           /\ j # resp.uid
           /\ users[j].password_hash = NoneStr
           /\ users[j].google_id \notin {NoneStr, users[resp.uid].google_id}
           /\ users[j].username = LocalPart(users[j].email) \o <<"1">>

\* A picture column that holds a picture.
HasPicture(u) == u.profile_picture # NoneStr /\ u.profile_picture # <<>>

\* C33: FederatedLogin changes no picture column that holds a picture.  When
\* it finds the account by Google id, the picture column keeps its value;
\* when it finds it by email, the column takes the picture of the identity
\* only if it held none, and email, username, password hash and role keep
\* their values.
C33_PictureKept ==
    [][\A idinfo \in SessionIdentities :
          (resp'.op = "google" /\ FederatedLogin(idinfo)) =>
              LET ids == UsersWithGoogleId(users, idinfo.sub)
                  mails == UsersWithEmail(users, idinfo.email)
                  uid == resp'.uid
              IN
              /\ \A i \in DOMAIN users :
                     HasPicture(users[i]) =>
                         users'[i].profile_picture = users[i].profile_picture
              /\ ids # {} =>
                     users'[uid].profile_picture = users[uid].profile_picture
              /\ (ids = {} /\ mails # {}) =>
                     /\ uid \in mails
                     /\ users'[uid].profile_picture =
                            IF HasPicture(users[uid])
                            THEN users[uid].profile_picture
                            ELSE idinfo.picture
                     /\ users'[uid].email = users[uid].email
                     /\ users'[uid].username = users[uid].username
                     /\ users'[uid].password_hash = users[uid].password_hash
                     /\ users'[uid].role = users[uid].role]_vars

\* C33 witness: FederatedLogin has returned the stored account, which has a
\* password; the account is linked to a Google id and its picture column
\* holds a picture.
C33_Witness ==
    /\ resp.op = "google"
    /\ resp.uid = 1
    /\ users[1].password_hash # NoneStr
    /\ users[1].google_id # NoneStr
    /\ HasPicture(users[1])
    /\ users[1].last_login = now

\* C34: when a VerifyOtp commits after a ResendOtp has stored a new code for
\* the same user, and the code it submitted is the one the resend replaced,
\* the user is not verified by it and the row ends as the verification run
\* after the resend leaves it.
C34_SupersededCodeRejected ==
    [][\A p \in Procs :
          (sess[p].pc = "verify" /\ VerifyCommit(p)) =>
              LET uid == sess[p].user_id
                  superseded ==
                      /\ ~users[uid].is_verified
                      /\ HasCode(users[uid])
                      /\ users[uid].otp_code # sess[p].loaded.otp_code
                      /\ sess[p].otp_code = sess[p].loaded.otp_code
              IN
              superseded =>
                  /\ ~users'[uid].is_verified
                  /\ \E after \in AfterCommit :
                         users' = VerifyFinish(users, uid, users[uid],
                                               sess[p].otp_code, after, now).table]_vars

\* C35: every verified user has no pending code: otp_code and
\* otp_expires_at are both None.
C35_VerifiedHasNoCode ==
    \A uid \in DOMAIN users :
        users[uid].is_verified =>
            /\ users[uid].otp_code = NoneInt
            /\ users[uid].otp_expires_at = NoneInt

\* C36: whenever Login, VerifyOtp, FederatedLogin or RefreshToken has
\* returned a token for a user, that user is in the table and its is_active
\* is true.
C36_TokensOnlyForActive ==
    (resp.op \in {"login", "verify_otp", "google", "refresh"} /\ resp.access # 0) =>
        /\ resp.access \in DOMAIN users
        /\ users[resp.access].is_active

\* C37: a ResendOtp for an unverified user whose mail fails answers 500 and
\* reports no mail, and yet the table is the one a ResendOtp with a
\* delivered mail leaves: the user holds the new code with otp_attempts 0
\* and a fresh expiry, the new code is the only code that User.verify_otp
\* accepts (so a different earlier code is refused), and no other user is
\* changed.
C37_ResendStoresBeforeMail ==
    [][\A uid \in DOMAIN users, code \in Codes :
          ( /\ resp'.op = "resend_otp"
            /\ ~users[uid].is_verified
            /\ ResendOtp(uid, code, FALSE) ) =>
              /\ resp' = Response("resend_otp", 500, "NotifyFailed")
              /\ ~resp'.email_sent
              /\ resp'.otp_mail = NoneInt
              /\ users' = ResendView(users, uid, code, TRUE, now).table
              /\ users'[uid].otp_code = code
              /\ users'[uid].otp_attempts = 0
              /\ users'[uid].otp_expires_at = now + OTP_MINUTES
              /\ \A c \in Codes :
                     verify_otp(users'[uid], c, now).ok <=> (c = code)
              /\ \A i \in DOMAIN users : i # uid => users'[i] = users[i]]_vars

\* C37 witness: a ResendOtp has answered that the mail failed, and the
\* unverified user holds the code 999999 with no attempt counted and ten
\* minutes to run.
C37_Witness ==
    /\ resp = Response("resend_otp", 500, "NotifyFailed")
    /\ \E uid \in DOMAIN users :
           /\ ~users[uid].is_verified
           /\ users[uid].otp_code = OTP_HIGH
           /\ users[uid].otp_attempts = 0
           /\ users[uid].otp_expires_at = now + OTP_MINUTES

====
